---------------------------- MODULE Spec2Model ----------------------------
(***************************************************************************)
(* Model of face_service/app.py: the /embed, /verify and /health handlers  *)
(* and the helpers they call.                                              *)
(*                                                                         *)
(* Numbers.  The arrays of app.py hold IEEE 754 binary32 values and its    *)
(* distances and thresholds are Python floats (binary64).  Both are held   *)
(* exactly and every operation rounds to nearest, ties to even.            *)
(*   binary32  [k, s, m, e]                                                *)
(*      k = "fin"  the value s * m * 2^e, s the sign 1 or -1;  m in        *)
(*                 2^23 .. 2^24 - 1 and e in -149 .. 104 (normal), or      *)
(*                 m < 2^23 and e = -149 (subnormal; m = 0 is a zero);     *)
(*      k = "inf"  the infinity of sign s;                                 *)
(*      k = "nan"  a NaN of sign s and fraction bits m.                    *)
(*   binary64  [k, s, h, l, e]                                             *)
(*      k = "fin"  the value s * (h * 2^26 + l) * 2^e with h in            *)
(*                 2^26 .. 2^27 - 1 and l < 2^26, or h = l = e = 0 (zero); *)
(*      k = "inf"  the infinity of sign s;                                 *)
(*      k = "nan"  a NaN of sign s (h: its fraction bits as a binary32);   *)
(*      k = "none" Python's None (an absent optional threshold).           *)
(* Strings (image_base64, the elements of templates_b64, embedding_b64)    *)
(* are sequences of symbols, one per character: 0..63 the base64 alphabet  *)
(* A-Z a-z 0-9 + /, 64 the pad '=', 65 any other ASCII character that is   *)
(* not listed here, 66 a character outside ASCII that is not whitespace,   *)
(* 67 an ASCII whitespace character, 68 a whitespace character outside     *)
(* ASCII (U+00A0, U+2003), 69 ':', 70 ','.  Bytes are 0..255.              *)
(***************************************************************************)
EXTENDS Integers, Sequences, FiniteSets, TLC

Max(a, b) == IF a > b THEN a ELSE b

\* the position of the highest set bit of a < 2^(2w), found by halving w
RECURSIVE MsbFrom(_, _)
MsbFrom(a, w) ==
    IF w = 0 THEN 0
    ELSE IF a >= 2 ^ w THEN w + MsbFrom(a \div 2 ^ w, w \div 2)
    ELSE MsbFrom(a, w \div 2)

\* the position of the highest set bit of a, 1 <= a < 2^31
Msb(a) == MsbFrom(a, 16)

\* n with its lowest bit set when bits below it were lost (the sticky bit)
Jam(n, lost) == IF lost /\ n % 2 = 0 THEN n + 1 ELSE n

(***************************************************************************)
(* binary32: the element type of every array (np.float32).                 *)
(***************************************************************************)
F32(s, m, e) == [k |-> "fin", s |-> s, m |-> m, e |-> e]

Zero32(s) == F32(s, 0, -149)

Inf32(s) == [k |-> "inf", s |-> s, m |-> 0, e |-> 0]

NaN32(s, frac) == [k |-> "nan", s |-> s, m |-> frac, e |-> 0]

\* the NaN an invalid operation (inf/inf, 0*inf, inf-inf) produces on x86-64
DefaultNaN == NaN32(-1, 4194304)

\* a NaN operand is returned with its quiet bit set
Quiet(x) == IF (x.m \div 4194304) % 2 = 1 THEN x ELSE NaN32(x.s, x.m + 4194304)

IsZero32(x) == x.k = "fin" /\ x.m = 0

\* the binary32 value of the integer n
Int32(n) ==
    IF n = 0 THEN Zero32(1)
    ELSE LET a == IF n < 0 THEN -n ELSE n
             p == Msb(a)
         IN  F32(IF n < 0 THEN -1 ELSE 1, a * 2 ^ (23 - p), p - 23)

\* m * 2^e with m >= 1 shifted up to 24 significant bits
Norm24(m, e) ==
    IF m >= 8388608 THEN [m |-> m, e |-> e]
    ELSE LET sh == 23 - Msb(m) IN [m |-> m * 2 ^ sh, e |-> e - sh]

\* s * M * 2^e rounded to binary32.  M < 2^30; when bits below M were lost, M is
\* at least 2^25 and its lowest bit is set.
Pack32(s, M, e) ==
    LET \* the quotient q of M by 2^k, rounded: a carry out of 24 bits moves up
        Fit(q, ek) ==
            IF q = 0 THEN Zero32(s)
            ELSE IF q = 16777216
                 THEN (IF ek + 1 > 104 THEN Inf32(s) ELSE F32(s, 8388608, ek + 1))
            ELSE IF ek > 104 THEN Inf32(s)
            ELSE F32(s, q, ek)
        \* M / 2^k to nearest, ties to even
        Nearest(k) ==
            LET q    == M \div 2 ^ k
                r    == M % 2 ^ k
                half == 2 ^ (k - 1)
            IN  IF r > half \/ (r = half /\ q % 2 = 1) THEN q + 1 ELSE q
        \* p the highest bit of M, k the number of low bits to drop
        Drop(p, k) ==
            IF k <= 0
            THEN IF e + k > 104 THEN Inf32(s) ELSE F32(s, M * 2 ^ (-k), e + k)
            ELSE IF k > p + 1 THEN Zero32(s)
            ELSE Fit(Nearest(k), e + k)
    IN  IF M = 0 THEN Zero32(s)
        ELSE Drop(Msb(M), Max(Msb(M) - 23, -149 - e))

\* x * y
Mul32(x, y) ==
    IF x.k = "nan" THEN Quiet(x)
    ELSE IF y.k = "nan" THEN Quiet(y)
    ELSE IF x.k = "inf" \/ y.k = "inf"
         THEN IF IsZero32(x) \/ IsZero32(y) THEN DefaultNaN ELSE Inf32(x.s * y.s)
    ELSE IF x.m = 0 \/ y.m = 0 THEN Zero32(x.s * y.s)
    ELSE LET \* the 48-bit product of two 24-bit significands, in 12-bit limbs
             Prod(a, b) ==
                 LET a1  == a.m \div 4096
                     a0  == a.m % 4096
                     b1  == b.m \div 4096
                     b0  == b.m % 4096
                     mid == a1 * b0 + a0 * b1
                     low == a0 * b0 + (mid % 4096) * 4096
                     hi  == a1 * b1 + mid \div 4096 + low \div 16777216
                     lo  == low % 16777216
                 IN  Pack32(x.s * y.s,
                            Jam(hi * 16 + lo \div 1048576, lo % 1048576 # 0),
                            a.e + b.e + 20)
         IN  Prod(Norm24(x.m, x.e), Norm24(y.m, y.e))

\* n shifted right by d bits, the lost bits kept as a sticky bit
ShiftJam(n, d) ==
    IF d >= 30 THEN (IF n = 0 THEN 0 ELSE 1)
    ELSE Jam(n \div 2 ^ d, n % 2 ^ d # 0)

\* x + y
Add32(x, y) ==
    IF x.k = "nan" THEN Quiet(x)
    ELSE IF y.k = "nan" THEN Quiet(y)
    ELSE IF x.k = "inf" /\ y.k = "inf" THEN (IF x.s = y.s THEN x ELSE DefaultNaN)
    ELSE IF x.k = "inf" THEN x
    ELSE IF y.k = "inf" THEN y
    ELSE IF x.m = 0 /\ y.m = 0 THEN Zero32(IF x.s = -1 /\ y.s = -1 THEN -1 ELSE 1)
    ELSE IF x.m = 0 THEN y
    ELSE IF y.m = 0 THEN x
    ELSE LET Total(s, T, e) == IF T = 0 THEN Zero32(1) ELSE Pack32(s, T, e)
             \* a the operand of larger magnitude, B the other one aligned to it
             Lined(a, b, B) ==
                 Total(a.s, IF a.s = b.s THEN a.m * 8 + B ELSE a.m * 8 - B, a.e - 3)
             Sum(a, b) == Lined(a, b, ShiftJam(b.m * 8, a.e - b.e))
         IN  IF x.e > y.e \/ (x.e = y.e /\ x.m >= y.m) THEN Sum(x, y) ELSE Sum(y, x)

\* seven more quotient bits of the long division by d
DivStep(st, d) ==
    LET n == st.r * 128 IN [q |-> st.q * 128 + n \div d, r |-> n % d]

\* x / y
Div32(x, y) ==
    IF x.k = "nan" THEN Quiet(x)
    ELSE IF y.k = "nan" THEN Quiet(y)
    ELSE IF x.k = "inf" THEN (IF y.k = "inf" THEN DefaultNaN ELSE Inf32(x.s * y.s))
    ELSE IF y.k = "inf" THEN Zero32(x.s * y.s)
    ELSE IF y.m = 0 THEN (IF x.m = 0 THEN DefaultNaN ELSE Inf32(x.s * y.s))
    ELSE IF x.m = 0 THEN Zero32(x.s * y.s)
    ELSE LET Rounded(s4, e) == Pack32(x.s * y.s, Jam(s4.q, s4.r # 0), e)
             Quot(a, b) ==
                 Rounded(DivStep(DivStep(DivStep(DivStep(
                             [q |-> a.m \div b.m, r |-> a.m % b.m],
                             b.m), b.m), b.m), b.m),
                         a.e - b.e - 28)
         IN  Quot(Norm24(x.m, x.e), Norm24(y.m, y.e))

\* the square root of mm * 4^14 digit by digit, from the bit pair i of mm down
RECURSIVE SqrtDigits(_, _, _, _)
SqrtDigits(mm, i, rem, root) ==
    IF i < -14 THEN [root |-> root, rem |-> rem]
    ELSE LET r1 == rem * 4 + (IF i >= 0 THEN (mm \div 4 ^ i) % 4 ELSE 0)
             t  == root * 4 + 1
         IN  IF r1 >= t THEN SqrtDigits(mm, i - 1, r1 - t, root * 2 + 1)
                        ELSE SqrtDigits(mm, i - 1, r1, root * 2)

\* sqrt(x)
Sqrt32(x) ==
    IF x.k = "nan" THEN Quiet(x)
    ELSE IF x.k = "fin" /\ x.m = 0 THEN x
    ELSE IF x.s = -1 THEN DefaultNaN
    ELSE IF x.k = "inf" THEN x
    ELSE LET Rounded(sq, ee) == Pack32(1, Jam(sq.root, sq.rem # 0), (ee - 28) \div 2)
             \* mm * 2^ee with ee even
             Even(mm, ee) == Rounded(SqrtDigits(mm, 12, 0, 0), ee)
             Root(a) == IF a.e % 2 = 1 THEN Even(a.m * 2, a.e - 1) ELSE Even(a.m, a.e)
         IN  Root(Norm24(x.m, x.e))

(***************************************************************************)
(* binary64: Python's float (distances, thresholds).                       *)
(***************************************************************************)
F64(s, h, l, e) == [k |-> "fin", s |-> s, h |-> h, l |-> l, e |-> e]

Zero64(s) == F64(s, 0, 0, 0)

Inf64(s) == [k |-> "inf", s |-> s, h |-> 0, l |-> 0, e |-> 0]

\* a NaN of sign s; h holds the fraction bits it has as a float32
NaN64(s, frac) == [k |-> "nan", s |-> s, h |-> frac, l |-> 0, e |-> 0]

DefaultNaN64 == NaN64(-1, 4194304)

None == [k |-> "none", s |-> 1, h |-> 0, l |-> 0, e |-> 0]

IsZero64(x) == x.k = "fin" /\ x.h = 0

\* the float n * 2^e for an integer n, |n| < 2^27
Dbl(n, e) ==
    IF n = 0 THEN Zero64(1)
    ELSE LET a == IF n < 0 THEN -n ELSE n
             p == Msb(a)
         IN  F64(IF n < 0 THEN -1 ELSE 1, a * 2 ^ (26 - p), 0, e + p - 52)

\* float(x) of a float32 x: the same value
ToF64(x) ==
    IF x.k = "nan" THEN NaN64(x.s, Quiet(x).m)
    ELSE IF x.k = "inf" THEN Inf64(x.s)
    ELSE IF x.m = 0 THEN Zero64(x.s)
    ELSE LET a == Norm24(x.m, x.e) IN F64(x.s, a.m * 8, 0, a.e - 29)

Neg64(x) == IF x.k \in {"nan", "none"} THEN x ELSE [x EXCEPT !.s = -x.s]

Abs64(x) == IF x.k \in {"nan", "none"} THEN x ELSE [x EXCEPT !.s = 1]

\* |a| < |b| for two floats that are not NaN
MagLess64(a, b) ==
    IF a.k = "inf" THEN FALSE
    ELSE IF b.k = "inf" THEN TRUE
    ELSE IF IsZero64(b) THEN FALSE
    ELSE IF IsZero64(a) THEN TRUE
    ELSE \/ a.e < b.e
         \/ a.e = b.e /\ (a.h < b.h \/ (a.h = b.h /\ a.l < b.l))

\* -1, 0, 1: the sign of a float that is not NaN
Sign64(x) == IF IsZero64(x) THEN 0 ELSE x.s

\* a < b and a <= b on floats: every comparison with a NaN is false
Less64(a, b) ==
    /\ a.k # "nan" /\ b.k # "nan"
    /\ IF Sign64(a) # Sign64(b) THEN Sign64(a) < Sign64(b)
       ELSE IF Sign64(a) = 1 THEN MagLess64(a, b)
       ELSE IF Sign64(a) = -1 THEN MagLess64(b, a)
       ELSE FALSE

Leq64(a, b) ==
    /\ a.k # "nan" /\ b.k # "nan"
    /\ ~Less64(b, a)

\* the pair h * 2^29 + l shifted right by d bits, the lost bits kept as a sticky bit
ShiftJam2(h, l, d) ==
    IF d = 0 THEN [h |-> h, l |-> l]
    ELSE IF d < 29
    THEN [h |-> h \div 2 ^ d,
          l |-> Jam(l \div 2 ^ d + (h % 2 ^ d) * 2 ^ (29 - d), l % 2 ^ d # 0)]
    ELSE IF d < 58
    THEN [h |-> 0,
          l |-> Jam(h \div 2 ^ (d - 29), h % 2 ^ (d - 29) # 0 \/ l # 0)]
    ELSE [h |-> 0, l |-> 1]

\* the 53-bit integer qh * 2^29 + ql times 2^e as a float (2^53 carried up)
Pack64(s, qh, ql, e) ==
    LET h == qh * 8 + ql \div 67108864
        l == ql % 67108864
    IN  IF h = 134217728
        THEN (IF e + 1 > 971 THEN Inf64(s) ELSE F64(s, 67108864, 0, e + 1))
        ELSE IF e > 971 THEN Inf64(s)
        ELSE F64(s, h, l, e)

\* s * (H * 2^29 + L) * 2^e, not zero, rounded to binary64
Round64(s, H, L, e) ==
    LET \* the low k bits dropped, to nearest, ties to even
        Nearest(k) ==
            LET r    == L % 2 ^ k
                half == 2 ^ (k - 1)
                ql   == L \div 2 ^ k + (H % 2 ^ k) * 2 ^ (29 - k)
                qh   == H \div 2 ^ k
            IN  IF r > half \/ (r = half /\ ql % 2 = 1)
                THEN (IF ql + 1 = 536870912 THEN Pack64(s, qh + 1, 0, e + k)
                                            ELSE Pack64(s, qh, ql + 1, e + k))
                ELSE Pack64(s, qh, ql, e + k)
        \* shifted up by sh bits
        Widen(sh) ==
            IF sh >= 29
            THEN Pack64(s, L * 2 ^ (sh - 29), 0, e - sh)
            ELSE Pack64(s, H * 2 ^ sh + L \div 2 ^ (29 - sh),
                        (L % 2 ^ (29 - sh)) * 2 ^ sh, e - sh)
        \* p the highest bit of the pair
        Fit(p) == IF p - 52 >= 1 THEN Nearest(p - 52) ELSE Widen(52 - p)
    IN  Fit(IF H > 0 THEN 29 + Msb(H) ELSE Msb(L))

\* x + y on floats
Add64(x, y) ==
    IF x.k = "nan" THEN x
    ELSE IF y.k = "nan" THEN y
    ELSE IF x.k = "inf" /\ y.k = "inf" THEN (IF x.s = y.s THEN x ELSE DefaultNaN64)
    ELSE IF x.k = "inf" THEN x
    ELSE IF y.k = "inf" THEN y
    ELSE IF x.h = 0 /\ y.h = 0 THEN Zero64(IF x.s = -1 /\ y.s = -1 THEN -1 ELSE 1)
    ELSE IF x.h = 0 THEN y
    ELSE IF y.h = 0 THEN x
    ELSE LET Total(s, H, L, e) ==
                 IF H = 0 /\ L = 0 THEN Zero64(1) ELSE Round64(s, H, L, e)
             \* the borrow or carry c between the low and the high half
             Carried(a, H, L0, c) == Total(a.s, H + c, L0 - c * 536870912, a.e - 3)
             Halves(a, H, L0) ==
                 Carried(a, H, L0,
                         IF L0 < 0 THEN -1 ELSE IF L0 >= 536870912 THEN 1 ELSE 0)
             \* a the operand of larger magnitude, B the other one aligned to it
             Lined(a, b, B) ==
                 IF a.s = b.s THEN Halves(a, a.h + B.h, a.l * 8 + B.l)
                              ELSE Halves(a, a.h - B.h, a.l * 8 - B.l)
             Sum(a, b) == Lined(a, b, ShiftJam2(b.h, b.l * 8, a.e - b.e))
         IN  IF MagLess64(x, y) THEN Sum(y, x) ELSE Sum(x, y)

\* x - y on floats
Sub64(x, y) == Add64(x, Neg64(y))

(***************************************************************************)
(* np.dot, np.linalg.norm and the normalisation.                           *)
(***************************************************************************)
\* float(d) to float32: the conversion at the return of the BLAS routine
ToF32(d) ==
    IF d.k = "nan" THEN NaN32(d.s, d.h)
    ELSE IF d.k = "inf" THEN Inf32(d.s)
    ELSE IF d.h = 0 THEN Zero32(d.s)
    ELSE Pack32(d.s, Jam(d.h, d.l # 0), d.e + 26)

\* the sum np.dot accumulates over the first n components: sdot of OpenBLAS on
\* x86-64 rounds each product to float32 and adds it to a double that starts at 0.0
RECURSIVE DotAcc(_, _, _)
DotAcc(a, b, n) ==
    IF n = 0 THEN Zero64(1)
    ELSE Add64(DotAcc(a, b, n - 1), ToF64(Mul32(a[n], b[n])))

\* np.dot(a, b) of two float32 vectors of length n: the accumulated sum as a
\* float32.  For vectors of at most two components, as all of this model are, the
\* result is the same when the sum is accumulated in float32.
DotSum(a, b, n) == ToF32(DotAcc(a, b, n))

\* np.linalg.norm(emb): sqrt(emb.dot(emb))
Norm(v) == Sqrt32(DotSum(v, v, Len(v)))

\* 1e-9 as a float32
EPS == F32(1, 9007199, -53)

\* x / (n + 1e-9): the float32 norm plus 1e-9, then the float32 quotient
DivEps(x, n) == Div32(x, Add32(n, EPS))

\* emb / (np.linalg.norm(emb) + 1e-9)
Normalize(v) == [i \in 1..Len(v) |-> DivEps(v[i], Norm(v))]

(***************************************************************************)
(* Bytes of a float32, little-endian IEEE 754 (emb.tobytes, np.frombuffer).*)
(***************************************************************************)
\* the four bytes of a float32 value
F32Bytes(x) ==
    LET e8   == IF x.k = "fin" THEN (IF x.m >= 8388608 THEN x.e + 150 ELSE 0) ELSE 255
        frac == IF x.k = "fin" THEN x.m % 8388608
                ELSE IF x.k = "inf" THEN 0 ELSE x.m
    IN  << frac % 256,
           (frac \div 256) % 256,
           (frac \div 65536) + 128 * (e8 % 2),
           (e8 \div 2) + (IF x.s < 0 THEN 128 ELSE 0) >>

\* the float32 value of four bytes
F32Value(b0, b1, b2, b3) ==
    LET e8   == (b3 % 128) * 2 + (b2 \div 128)
        frac == (b2 % 128) * 65536 + b1 * 256 + b0
        sgn  == IF b3 >= 128 THEN -1 ELSE 1
    IN  IF e8 = 255 THEN (IF frac = 0 THEN Inf32(sgn) ELSE NaN32(sgn, frac))
        ELSE IF e8 = 0 THEN F32(sgn, frac, -149)
        ELSE F32(sgn, 8388608 + frac, e8 - 150)

RECURSIVE Flatten(_)
Flatten(ss) == IF ss = <<>> THEN <<>> ELSE Head(ss) \o Flatten(Tail(ss))

\* emb.astype(np.float32).tobytes()
ToBytes(emb) == Flatten([i \in 1..Len(emb) |-> F32Bytes(emb[i])])

\* np.frombuffer(raw, dtype=np.float32), for len(raw) a multiple of 4
FromBuffer(raw) ==
    [i \in 1..(Len(raw) \div 4) |->
        F32Value(raw[4 * i - 3], raw[4 * i - 2], raw[4 * i - 1], raw[4 * i])]

(***************************************************************************)
(* base64.  b64encode is RFC 4648.  b64decode of a str first encodes it as  *)
(* ASCII, which fails on a character outside ASCII; then it is             *)
(* binascii.a2b_base64 in its default (non-strict) mode: characters        *)
(* outside the alphabet are skipped, a sufficient pad run ends the input,  *)
(* and a final group of one symbol or an unpadded partial group is an      *)
(* error.                                                                  *)
(***************************************************************************)
PAD == 64

\* a character outside ASCII that is not whitespace
NON_ASCII == 66

\* an ASCII whitespace character (space, \t, \n, \r, ...)
SPACE == 67

\* a whitespace character outside ASCII (U+00A0, U+2003, ...)
NBSP == 68

COLON == 69

COMMA == 70

\* s.encode('ascii') fails
HasNonAscii(s) == \E i \in 1..Len(s) : s[i] \in {NON_ASCII, NBSP}

\* str.isspace of one character
IsSpace(ch) == ch \in {SPACE, NBSP}

RECURSIVE LStrip(_)
LStrip(s) == IF s # <<>> /\ IsSpace(Head(s)) THEN LStrip(Tail(s)) ELSE s

RECURSIVE RStrip(_)
RStrip(s) ==
    IF s # <<>> /\ IsSpace(s[Len(s)]) THEN RStrip(SubSeq(s, 1, Len(s) - 1)) ELSE s

\* s.strip(): whitespace, ASCII or not, removed at both ends
Strip(s) == RStrip(LStrip(s))

\* s.startswith(p)
StartsWith(s, p) == Len(s) >= Len(p) /\ SubSeq(s, 1, Len(p)) = p

\* the position of the first ',' of s at or after i, 0 when there is none
RECURSIVE FirstComma(_, _)
FirstComma(s, i) ==
    IF i > Len(s) THEN 0 ELSE IF s[i] = COMMA THEN i ELSE FirstComma(s, i + 1)

\* s.split(",", 1)[1] for an s that holds a comma
AfterComma(s) == SubSeq(s, FirstComma(s, 1) + 1, Len(s))

\* "data:"
DataPrefix == <<29, 26, 45, 26, COLON>>

RECURSIVE B64Encode(_)
B64Encode(bs) ==
    IF Len(bs) = 0 THEN <<>>
    ELSE IF Len(bs) = 1
         THEN << bs[1] \div 4, (bs[1] % 4) * 16, PAD, PAD >>
    ELSE IF Len(bs) = 2
         THEN << bs[1] \div 4, (bs[1] % 4) * 16 + bs[2] \div 16,
                 (bs[2] % 16) * 4, PAD >>
    ELSE << bs[1] \div 4, (bs[1] % 4) * 16 + bs[2] \div 16,
            (bs[2] % 16) * 4 + bs[3] \div 64, bs[3] % 64 >>
         \o B64Encode(SubSeq(bs, 4, Len(bs)))

\* one character of a2b_base64's loop; st = [q, left, pads, out, done]
B64Step(st, ch) ==
    IF st.done THEN st
    ELSE IF ch = PAD
         THEN IF st.q >= 2 /\ st.q + st.pads + 1 >= 4
              THEN [st EXCEPT !.done = TRUE]
              ELSE IF st.q >= 2 THEN [st EXCEPT !.pads = st.pads + 1] ELSE st
    ELSE IF ch > PAD THEN st     \* no character of the alphabet: skipped
    ELSE CASE st.q = 0 -> [st EXCEPT !.q = 1, !.left = ch, !.pads = 0]
           [] st.q = 1 -> [st EXCEPT !.q = 2, !.left = ch % 16, !.pads = 0,
                                     !.out = Append(st.out, st.left * 4 + ch \div 16)]
           [] st.q = 2 -> [st EXCEPT !.q = 3, !.left = ch % 4, !.pads = 0,
                                     !.out = Append(st.out, st.left * 16 + ch \div 4)]
           [] st.q = 3 -> [st EXCEPT !.q = 0, !.left = 0, !.pads = 0,
                                     !.out = Append(st.out, st.left * 64 + ch)]

RECURSIVE B64Scan(_, _, _)
B64Scan(s, i, st) ==
    IF i > Len(s) THEN st ELSE B64Scan(s, i + 1, B64Step(st, s[i]))

Detail(msg, n, m) == [msg |-> msg, n |-> n, m |-> m]

\* base64.b64decode(s): [ok, bytes] or [ok = FALSE, detail] (ValueError, binascii.Error)
B64Decode(s) ==
    LET st == B64Scan(s, 1, [q |-> 0, left |-> 0, pads |-> 0, out |-> <<>>, done |-> FALSE])
    IN  IF HasNonAscii(s)
        THEN [ok |-> FALSE, bytes |-> <<>>,
              detail |-> Detail("string argument should contain only ASCII characters", 0, 0)]
        ELSE IF st.done \/ st.q = 0
        THEN [ok |-> TRUE, bytes |-> st.out, detail |-> Detail("", 0, 0)]
        ELSE IF st.q = 1
        THEN [ok |-> FALSE, bytes |-> <<>>,
              detail |-> Detail("Invalid base64-encoded string: number of data characters cannot be 1 more than a multiple of 4",
                                (Len(st.out) \div 3) * 4 + 1, 0)]
        ELSE [ok |-> FALSE, bytes |-> <<>>, detail |-> Detail("Incorrect padding", 0, 0)]

(***************************************************************************)
(* The helpers of app.py.  A helper that can raise returns a record with   *)
(* ok = FALSE, the exception's message (detail) and the error kind of the  *)
(* place that raised it (kind is not part of what the caller is sent).     *)
(***************************************************************************)
\* 0.45 as a float: 0x3FDCCCCCCCCCCCCD
DEFAULT_THRESHOLD == F64(1, 120795955, 13421773, -54)

MODEL_NAME == "insightface/buffalo_l"

NoDetail == Detail("", 0, 0)

\* the float32 vector (x, y) of two integers
Vec(x, y) == <<Int32(x), Int32(y)>>

Face(x1, y1, x2, y2, emb) == [bbox |-> <<x1, y1, x2, y2>>, has_emb |-> TRUE, embedding |-> emb]

FaceNoEmb(x1, y1, x2, y2) == [bbox |-> <<x1, y1, x2, y2>>, has_emb |-> FALSE, embedding |-> <<>>]

\* face_app.get(img): the detector and embedder are external.  Their stand-in is a
\* table of pictures: picture i shows the detections Scenes[i]; no picture, no detection.
Scenes ==
    << <<>>,
       << Face(0, 0, 10, 10, Vec(3, 4)) >>,
       << Face(0, 0, 10, 10, Vec(0, 1)), Face(20, 20, 40, 40, Vec(1, 0)) >>,
       << Face(0, 0, 10, 10, Vec(0, 0)) >>,
       << Face(0, 0, 10, 10, Vec(1, 0)), FaceNoEmb(0, 0, 30, 30) >>,
       << Face(0, 0, 10, 10, Vec(1, 6)) >> >>

face_app_get(img) == IF img \in 1..Len(Scenes) THEN Scenes[img] ELSE <<>>

\* cv2.imdecode(arr, cv2.IMREAD_COLOR): the decoder is external.  Its stand-in reads
\* the first byte as the number of the picture; 0 when the bytes are no image (None).
imdecode(bytes) ==
    IF bytes[1] \in 1..Len(Scenes) THEN bytes[1] ELSE 0

\* decode_base64_image(data_url_or_b64) of the text as it was sent
decode_base64_image(im) ==
    LET \* np.frombuffer, cv2.imdecode and the test of its result
        Image(dec) ==
            IF ~dec.ok THEN [ok |-> FALSE, img |-> 0, detail |-> dec.detail]
            ELSE IF dec.bytes = <<>>
            THEN [ok |-> FALSE, img |-> 0,
                  detail |-> Detail("cv2.error: (-215:Assertion failed) !buf.empty() in function 'imdecode_'", 0, 0)]
            ELSE IF imdecode(dec.bytes) = 0
            THEN [ok |-> FALSE, img |-> 0, detail |-> Detail("invalid image bytes", 0, 0)]
            ELSE [ok |-> TRUE, img |-> imdecode(dec.bytes), detail |-> NoDetail]
        \* s the stripped text: a data URL is cut after its first comma
        Payload(s) ==
            IF StartsWith(s, DataPrefix)
            THEN IF FirstComma(s, 1) = 0
                 THEN [ok |-> FALSE, img |-> 0,
                       detail |-> Detail("list index out of range", 0, 0)]
                 ELSE Image(B64Decode(AfterComma(s)))
            ELSE Image(B64Decode(s))
    IN  IF im = <<>>
        THEN [ok |-> FALSE, img |-> 0, detail |-> Detail("empty image", 0, 0)]
        ELSE Payload(Strip(im))

\* A detection is [bbox, has_emb, embedding]: bbox = <<x1, y1, x2, y2>>, has_emb
\* FALSE when the embedding is None.
Area(f) == (f.bbox[3] - f.bbox[1]) * (f.bbox[4] - f.bbox[2])

\* faulty variant of GoesBefore: a later detection of equal area goes first
GoesBeforeTie(ka, kb) == ka >= kb

\* faces.sort(key=area, reverse=True) is stable: an element goes before the elements
\* of strictly smaller area only, so equal areas keep the order they came in.
GoesBefore(ka, kb) == ka > kb

\* index i inserted into the sorted index list `sorted`
RECURSIVE InsertIdx(_, _, _)
InsertIdx(sorted, i, faces) ==
    IF sorted = <<>> THEN <<i>>
    ELSE IF GoesBefore(Area(faces[i]), Area(faces[Head(sorted)]))
         THEN <<i>> \o sorted
         ELSE <<Head(sorted)>> \o InsertIdx(Tail(sorted), i, faces)

\* the indices of faces in the order the sort leaves them
RECURSIVE SortedIdx(_, _)
SortedIdx(faces, n) ==
    IF n = 0 THEN <<>> ELSE InsertIdx(SortedIdx(faces, n - 1), n, faces)

\* faulty variant of EmbMissing: the size check left out
EmbMissingNoneOnly(f) == ~f.has_emb

\* emb is None or emb.size == 0
EmbMissing(f) == ~f.has_emb \/ Len(f.embedding) = 0

get_single_face_embedding(faces) ==
    IF faces = <<>>
    THEN [ok |-> FALSE, sel |-> 0, emb |-> <<>>, kind |-> "NoFaceError",
          detail |-> Detail("no face detected", 0, 0)]
    ELSE LET sel == SortedIdx(faces, Len(faces))[1]
         IN  IF EmbMissing(faces[sel])
             THEN [ok |-> FALSE, sel |-> sel, emb |-> <<>>, kind |-> "EmptyEmbeddingError",
                   detail |-> Detail("embedding empty", 0, 0)]
             ELSE [ok |-> TRUE, sel |-> sel, emb |-> Normalize(faces[sel].embedding),
                   kind |-> "", detail |-> NoDetail]

emb_to_b64(emb) == B64Encode(ToBytes(emb))

\* np.frombuffer rejects a buffer whose size is no multiple of the element size
Misaligned(raw) == Len(raw) % 4 # 0

b64_to_emb(b64str) ==
    LET dec == B64Decode(b64str)
    IN  IF ~dec.ok THEN [ok |-> FALSE, emb |-> <<>>, detail |-> dec.detail]
        ELSE IF Misaligned(dec.bytes)
        THEN [ok |-> FALSE, emb |-> <<>>,
              detail |-> Detail("buffer size must be a multiple of element size", 0, 0)]
        ELSE [ok |-> TRUE, emb |-> Normalize(FromBuffer(dec.bytes)), detail |-> NoDetail]

Min(a, b) == IF a < b THEN a ELSE b

\* faulty variant of Aligned: lengths not compared, the shorter length summed
AlignedLoose(a, b) == TRUE

\* np.dot of two 1-D arrays needs equal lengths
Aligned(a, b) == Len(a) = Len(b)

\* faulty variant of OneMinus: the similarity returned as the distance
SimFlipped(sim) == sim

\* 1.0 - sim, for sim = float(np.dot(a, b))
OneMinus(sim) == Sub64(Dbl(1, 0), sim)

cosine_distance(a, b) ==
    IF ~Aligned(a, b)
    THEN [ok |-> FALSE, d |-> None,
          detail |-> Detail("shapes not aligned", Len(a), Len(b))]
    ELSE [ok |-> TRUE, d |-> OneMinus(ToF64(DotSum(a, b, Min(Len(a), Len(b))))),
          detail |-> NoDetail]

(***************************************************************************)
(* Inputs.                                                                 *)
(***************************************************************************)
\* longest template list of a /verify request, one request at a time
MaxTemplates == 2

\* longest template list of a /verify request, two requests at a time
MaxConcTemplates == 1

\* most detections of one picture, for the face selection taken alone
MaxFaces == 3

SeqsUpTo(S, n) == UNION {[1..k -> S] : k \in 0..n}

\* image_base64 values: the text of the field
PictureImage(i) == B64Encode(<<i>>)

EmptyImage == <<>>

\* "data:image/jpeg;base64," followed by the text b64
DataUrl(b64) ==
    DataPrefix \o <<34, 38, 26, 32, 30, 63, 35, 41, 30, 32, 65,
                    27, 26, 44, 30, 58, 56, COMMA>> \o b64

\* "data:" and no comma
NoCommaImage == DataPrefix

\* "AQ"
BadPadImage == <<0, 16>>

NotAnImage == B64Encode(<<0, 7>>)

\* picture 2 as a data URL
DataUrlImage == DataUrl(B64Encode(<<2>>))

\* picture 2 as a data URL after a space and before a no-break space
SpacedDataUrlImage == <<SPACE>> \o DataUrlImage \o <<NBSP>>

\* a single space: not empty as sent, no text left once stripped
BlankImage == <<SPACE>>

Images ==
    {PictureImage(i) : i \in (1..Len(Scenes)) \ {2}}
        \cup {SpacedDataUrlImage, BlankImage, EmptyImage, NoCommaImage, BadPadImage,
              NotAnImage}

ImagesConc == {PictureImage(2), PictureImage(3), BadPadImage}

\* template strings: two unit vectors, a vector of NaNs, three bytes, one float,
\* the empty string, text with a missing pad, and a vector of length 8
TemplateUnitX == emb_to_b64(Vec(1, 0))

TemplateUnitY == emb_to_b64(Vec(0, 1))

TemplateNaN == B64Encode(ToBytes(<<NaN32(1, 4194304), NaN32(1, 4194304)>>))

TemplateOddBytes == B64Encode(<<1, 2, 3>>)

TemplateOneFloat == emb_to_b64(<<Int32(1)>>)

TemplateEmpty == <<>>

TemplateBadPad == <<0, 16>>

\* a stored embedding that is not of unit length: (8.0, 0.0)
TemplateScaled == B64Encode(ToBytes(Vec(8, 0)))

Templates ==
    {TemplateUnitX, TemplateUnitY, TemplateNaN, TemplateOddBytes,
     TemplateOneFloat, TemplateEmpty, TemplateScaled}

TemplatesConc == {TemplateUnitX, TemplateUnitY, TemplateBadPad}

Thresholds == {None, Dbl(0, 0), Dbl(1, 0)}

ThresholdsConc == {None, Dbl(0, 0)}

Detections ==
    { Face(0, 0, 10, 10, Vec(3, 4)),
      Face(5, 5, 25, 25, Vec(1, 0)),
      Face(30, 0, 50, 20, Vec(0, 1)),
      Face(10, 10, 0, 0, Vec(0, 0)),
      Face(0, 0, 20, 20, <<>>),
      FaceNoEmb(0, 0, 20, 20) }

(***************************************************************************)
(* State.                                                                  *)
(***************************************************************************)
VARIABLES
    pc,      \* pc[r]: where request r is in its handler ("idle": no call)
    req,     \* req[r]: the request body
    loc,     \* loc[f]: the local variables of call frame f
    resp,    \* resp[r]: the response (status 0: none yet)
    kind,    \* kind[r]: the error kind of the place that raised (not sent)
    steps,   \* steps[r]: the calls to the decoder and the embedder, in order
    store,   \* the caller's enrolled template and the image it came from
    xfaces,  \* the detections handed to get_single_face_embedding taken alone
    xout     \* its result

vars == <<pc, req, loc, resp, kind, steps, store, xfaces, xout>>

Slots == {1, 2}

Sequential == {1}

Concurrent == {1, 2}

\* faulty variant of Frame: one module-level set of variables for all calls
FrameShared(r) == 1

\* the frame that holds call r's local variables: each call has its own
Frame(r) == r

NoReq == [op |-> "", image_base64 |-> EmptyImage, templates_b64 |-> <<>>, threshold |-> None]

\* i is the place of the loop in the template list
NoLocals == [img |-> 0, probe |-> <<>>, thr |-> None, best |-> None, i |-> 1]

NoResp ==
    [status |-> 0, model |-> "", embedding_b64 |-> <<>>, match |-> FALSE,
     best_distance |-> None, threshold |-> None, detail |-> NoDetail]

\* HTTPException(status_code=400, detail=str(e))
ErrorResp(detail) == [NoResp EXCEPT !.status = 400, !.detail = detail]

NoStore == [set |-> FALSE, image |-> EmptyImage, embedding_b64 |-> <<>>]

NotApplied == [applied |-> FALSE, res |-> get_single_face_embedding(<<>>)]

Idle ==
    /\ pc = [r \in Slots |-> "idle"]
    /\ req = [r \in Slots |-> NoReq]
    /\ loc = [f \in Slots |-> NoLocals]
    /\ resp = [r \in Slots |-> NoResp]
    /\ kind = [r \in Slots |-> ""]
    /\ steps = [r \in Slots |-> <<>>]
    /\ store = NoStore

Init ==
    /\ Idle
    /\ xfaces = <<>>
    /\ xout = NotApplied

(***************************************************************************)
(* The handlers, one action per step.  A step that raises goes to the      *)
(* handler's except clause, which answers 400 with the message.            *)
(***************************************************************************)
Respond(r, response, k) ==
    /\ resp' = [resp EXCEPT ![r] = response]
    /\ kind' = [kind EXCEPT ![r] = k]
    /\ pc' = [pc EXCEPT ![r] = "done"]

Goto(r, label) ==
    /\ pc' = [pc EXCEPT ![r] = label]
    /\ UNCHANGED <<resp, kind>>

\* a client posts /embed
CallEmbedFrom(r, images) ==
    /\ pc[r] = "idle"
    /\ \E im \in images :
          req' = [req EXCEPT ![r] = [op |-> "embed", image_base64 |-> im,
                                     templates_b64 |-> <<>>, threshold |-> None]]
    /\ loc' = [loc EXCEPT ![Frame(r)] = NoLocals]
    /\ pc' = [pc EXCEPT ![r] = "decode"]
    /\ UNCHANGED <<resp, kind, steps, store, xfaces, xout>>

\* a client posts /verify
CallVerifyFrom(r, images, templates, maxlen, thresholds) ==
    /\ pc[r] = "idle"
    /\ \E im \in images, ts \in SeqsUpTo(templates, maxlen), th \in thresholds :
          req' = [req EXCEPT ![r] = [op |-> "verify", image_base64 |-> im,
                                     templates_b64 |-> ts, threshold |-> th]]
    /\ loc' = [loc EXCEPT ![Frame(r)] = NoLocals]
    /\ pc' = [pc EXCEPT ![r] = "guard"]
    /\ UNCHANGED <<resp, kind, steps, store, xfaces, xout>>

\* faulty variant of NoTemplates: the guard left out
NoTemplatesNever(ts) == FALSE

\* not req.templates_b64
NoTemplates(ts) == Len(ts) = 0

\* verify, up to the try: the guard on the template list, and thr
VerifyGuard(r) ==
    /\ pc[r] = "guard"
    /\ IF NoTemplates(req[r].templates_b64)
       THEN /\ Respond(r, ErrorResp(Detail("no templates", 0, 0)), "NoTemplatesError")
            /\ UNCHANGED loc
       ELSE /\ loc' = [loc EXCEPT ![Frame(r)].thr =
                          IF req[r].threshold # None THEN req[r].threshold
                                                     ELSE DEFAULT_THRESHOLD]
            /\ Goto(r, "decode")
    /\ UNCHANGED <<req, steps, store, xfaces, xout>>

\* img = decode_base64_image(req.image_base64)
DecodeImage(r) ==
    /\ pc[r] = "decode"
    /\ steps' = [steps EXCEPT ![r] = Append(@, "decode")]
    /\ LET res == decode_base64_image(req[r].image_base64)
       IN  IF res.ok
           THEN /\ loc' = [loc EXCEPT ![Frame(r)].img = res.img]
                /\ Goto(r, "detect")
           ELSE /\ Respond(r, ErrorResp(res.detail), "DecodeError")
                /\ UNCHANGED loc
    /\ UNCHANGED <<req, store, xfaces, xout>>

\* get_single_face_embedding(img); in verify, best = 999.0 follows
Extract(r) ==
    /\ pc[r] = "detect"
    /\ steps' = [steps EXCEPT ![r] = Append(@, "detect")]
    /\ LET res == get_single_face_embedding(face_app_get(loc[Frame(r)].img))
       IN  IF res.ok
           THEN /\ loc' = [loc EXCEPT ![Frame(r)].probe = res.emb,
                                      ![Frame(r)].best =
                                          IF req[r].op = "verify" THEN Dbl(999, 0) ELSE @,
                                      ![Frame(r)].i = 1]
                /\ Goto(r, IF req[r].op = "embed" THEN "encode" ELSE "loop")
           ELSE /\ Respond(r, ErrorResp(res.detail), res.kind)
                /\ UNCHANGED loc
    /\ UNCHANGED <<req, store, xfaces, xout>>

\* embed's return
EmbedReturn(r) ==
    /\ pc[r] = "encode"
    /\ Respond(r, [NoResp EXCEPT !.status = 200, !.model = MODEL_NAME,
                                 !.embedding_b64 = emb_to_b64(loc[Frame(r)].probe)], "")
    /\ UNCHANGED <<req, loc, steps, store, xfaces, xout>>

\* faulty variant of LoopDone: the loop left at the first template within thr
LoopDoneEarly(i, n, best, thr) == i > n \/ Leq64(best, thr)

\* for t in req.templates_b64: the loop ends when the list is exhausted
LoopDone(i, n, best, thr) == i > n

\* one iteration of verify's loop
VerifyLoop(r) ==
    /\ pc[r] = "loop"
    /\ LET l == loc[Frame(r)]
           ts == req[r].templates_b64
       IN  /\ ~LoopDone(l.i, Len(ts), l.best, l.thr)
           /\ LET dec == b64_to_emb(ts[l.i])
                  cd  == cosine_distance(l.probe, dec.emb)
              IN  IF ~dec.ok
                  THEN Respond(r, ErrorResp(dec.detail), "CodecError") /\ UNCHANGED loc
                  ELSE IF ~cd.ok
                  THEN Respond(r, ErrorResp(cd.detail), "ShapeError") /\ UNCHANGED loc
                  ELSE /\ loc' = [loc EXCEPT ![Frame(r)].best =
                                     IF Less64(cd.d, l.best) THEN cd.d ELSE l.best,
                                             ![Frame(r)].i = l.i + 1]
                       /\ Goto(r, "loop")
    /\ UNCHANGED <<req, steps, store, xfaces, xout>>

\* faulty variant of decide: the boundary excluded
decide_strict(best, thr) == Less64(best, thr)

\* best <= thr
decide(best, thr) == Leq64(best, thr)

\* verify's return
VerifyReturn(r) ==
    /\ pc[r] = "loop"
    /\ LET l == loc[Frame(r)]
       IN  /\ LoopDone(l.i, Len(req[r].templates_b64), l.best, l.thr)
           /\ Respond(r, [NoResp EXCEPT !.status = 200, !.model = MODEL_NAME,
                                        !.match = decide(l.best, l.thr),
                                        !.best_distance = l.best,
                                        !.threshold = l.thr], "")
    /\ UNCHANGED <<req, loc, steps, store, xfaces, xout>>

\* the caller of /embed keeps the template it was sent, with the image it sent
Enroll(r) ==
    /\ pc[r] = "done"
    /\ req[r].op = "embed"
    /\ resp[r].status = 200
    /\ store' = [set |-> TRUE, image |-> req[r].image_base64,
                 embedding_b64 |-> resp[r].embedding_b64]
    /\ UNCHANGED <<pc, req, loc, resp, kind, steps, xfaces, xout>>

\* the response is sent; the call's frame and everything in it is dropped
Deliver(r) ==
    /\ pc[r] = "done"
    /\ pc' = [pc EXCEPT ![r] = "idle"]
    /\ req' = [req EXCEPT ![r] = NoReq]
    /\ resp' = [resp EXCEPT ![r] = NoResp]
    /\ kind' = [kind EXCEPT ![r] = ""]
    /\ steps' = [steps EXCEPT ![r] = <<>>]
    /\ loc' = [loc EXCEPT ![Frame(r)] = NoLocals]
    /\ UNCHANGED <<store, xfaces, xout>>

\* GET /health: answers {"status": "OK"} and touches nothing
Health == UNCHANGED vars

EnrolledTemplates == IF store.set THEN {store.embedding_b64} ELSE {}

CallEmbed(r) == CallEmbedFrom(r, Images)

CallVerify(r) ==
    CallVerifyFrom(r, Images, Templates \cup EnrolledTemplates, MaxTemplates, Thresholds)

\* one request at a time
Next ==
    \/ \E r \in Sequential : CallEmbed(r)
    \/ \E r \in Sequential : CallVerify(r)
    \/ \E r \in Sequential : VerifyGuard(r)
    \/ \E r \in Sequential : DecodeImage(r)
    \/ \E r \in Sequential : Extract(r)
    \/ \E r \in Sequential : EmbedReturn(r)
    \/ \E r \in Sequential : VerifyLoop(r)
    \/ \E r \in Sequential : VerifyReturn(r)
    \/ \E r \in Sequential : Enroll(r)
    \/ \E r \in Sequential : Deliver(r)
    \/ Health

Spec == Init /\ [][Next]_vars

CallEmbedConc(r) == CallEmbedFrom(r, ImagesConc)

CallVerifyConc(r) ==
    CallVerifyFrom(r, ImagesConc, TemplatesConc, MaxConcTemplates, ThresholdsConc)

\* two requests at a time, their steps interleaved in every order
NextConc ==
    \/ \E r \in Concurrent : CallEmbedConc(r)
    \/ \E r \in Concurrent : CallVerifyConc(r)
    \/ \E r \in Concurrent : VerifyGuard(r)
    \/ \E r \in Concurrent : DecodeImage(r)
    \/ \E r \in Concurrent : Extract(r)
    \/ \E r \in Concurrent : EmbedReturn(r)
    \/ \E r \in Concurrent : VerifyLoop(r)
    \/ \E r \in Concurrent : VerifyReturn(r)
    \/ \E r \in Concurrent : Deliver(r)
    \/ Health

SpecConc == Init /\ [][NextConc]_vars

\* get_single_face_embedding taken alone, on every short list of detections
InitExtract ==
    /\ Idle
    /\ xfaces \in SeqsUpTo(Detections, MaxFaces)
    /\ xout = NotApplied

ApplyExtract ==
    /\ ~xout.applied
    /\ xout' = [applied |-> TRUE, res |-> get_single_face_embedding(xfaces)]
    /\ UNCHANGED <<pc, req, loc, resp, kind, steps, store, xfaces>>

NextExtract == ApplyExtract

SpecExtract == InitExtract /\ [][NextExtract]_vars

(***************************************************************************)
(* The handlers as functions of the request: what a call answers when it   *)
(* runs alone, from its first statement to its return or its except.       *)
(***************************************************************************)
\* decode_base64_image then get_single_face_embedding, as embed and verify call them
ProbeOf(im) ==
    LET dec == decode_base64_image(im)
    IN  IF ~dec.ok
        THEN [ok |-> FALSE, emb |-> <<>>, kind |-> "DecodeError", detail |-> dec.detail]
        ELSE LET res == get_single_face_embedding(face_app_get(dec.img))
             IN  [ok |-> res.ok, emb |-> res.emb, kind |-> res.kind, detail |-> res.detail]

\* verify's loop from template i on, with the best distance so far
RECURSIVE ScanTemplates(_, _, _, _, _)
ScanTemplates(probe, ts, i, best, thr) ==
    IF LoopDone(i, Len(ts), best, thr)
    THEN [ok |-> TRUE, best |-> best, kind |-> "", detail |-> NoDetail]
    ELSE LET dec == b64_to_emb(ts[i])
             cd  == cosine_distance(probe, dec.emb)
         IN  IF ~dec.ok
             THEN [ok |-> FALSE, best |-> best, kind |-> "CodecError", detail |-> dec.detail]
             ELSE IF ~cd.ok
             THEN [ok |-> FALSE, best |-> best, kind |-> "ShapeError", detail |-> cd.detail]
             ELSE ScanTemplates(probe, ts, i + 1,
                                IF Less64(cd.d, best) THEN cd.d ELSE best, thr)

embed(q) ==
    LET p == ProbeOf(q.image_base64)
    IN  IF ~p.ok THEN ErrorResp(p.detail)
        ELSE [NoResp EXCEPT !.status = 200, !.model = MODEL_NAME,
                            !.embedding_b64 = emb_to_b64(p.emb)]

verify(q) ==
    IF NoTemplates(q.templates_b64) THEN ErrorResp(Detail("no templates", 0, 0))
    ELSE LET thr == IF q.threshold # None THEN q.threshold ELSE DEFAULT_THRESHOLD
             p   == ProbeOf(q.image_base64)
         IN  IF ~p.ok THEN ErrorResp(p.detail)
             ELSE LET sc == ScanTemplates(p.emb, q.templates_b64, 1, Dbl(999, 0), thr)
                  IN  IF ~sc.ok THEN ErrorResp(sc.detail)
                      ELSE [NoResp EXCEPT !.status = 200, !.model = MODEL_NAME,
                                          !.match = decide(sc.best, thr),
                                          !.best_distance = sc.best,
                                          !.threshold = thr]

(***************************************************************************)
(* Properties.                                                             *)
(***************************************************************************)
Done(r) == pc[r] = "done"

VerifyDone(r) == Done(r) /\ req[r].op = "verify"

VerifyOK(r) == VerifyDone(r) /\ resp[r].status = 200

\* the distance verify computes between the probe and template string t
DistTo(probe, t) == cosine_distance(probe, b64_to_emb(t).emb).d

\* t is base64 text of a number of bytes that is no multiple of 4
OddTemplate(t) == B64Decode(t).ok /\ Len(B64Decode(t).bytes) % 4 # 0

\* t decodes to whole float32 components, but not as many as the probe has
WrongDim(probe, t) ==
    /\ B64Decode(t).ok
    /\ Len(B64Decode(t).bytes) % 4 = 0
    /\ Len(B64Decode(t).bytes) \div 4 # Len(probe)

\* C1: in every successful verify response best_distance is the minimum of the
\* distances from the probe to the supplied templates: it is the distance to one
\* of them, and no template is strictly nearer.
C1_BestIsMinimum ==
    \A r \in Slots :
        VerifyOK(r) =>
            LET p  == loc[Frame(r)].probe
                ts == req[r].templates_b64
                b  == resp[r].best_distance
            IN  /\ \E i \in 1..Len(ts) : DistTo(p, ts[i]) = b
                /\ \A i \in 1..Len(ts) : ~Less64(DistTo(p, ts[i]), b)

\* C2: in every successful verify response, match is true exactly when
\* best_distance <= threshold, the two as the same response reports them.
C2_MatchIffWithinThreshold ==
    \A r \in Slots :
        VerifyOK(r) =>
            (resp[r].match <=> Leq64(resp[r].best_distance, resp[r].threshold))

C2_Witness ==
    \E r \in Slots :
        /\ VerifyOK(r)
        /\ resp[r].best_distance = resp[r].threshold
        /\ resp[r].match

\* C3: a verify call with an empty template list never reaches the decoder or the
\* embedder, whatever its image, and is answered 400 "no templates".
C3_EmptyListFailsFirst ==
    \A r \in Slots :
        (req[r].op = "verify" /\ req[r].templates_b64 = <<>>) =>
            /\ steps[r] = <<>>
            /\ pc[r] \in {"guard", "done"}
            /\ Done(r) => /\ resp[r] = ErrorResp(Detail("no templates", 0, 0))
                          /\ kind[r] = "NoTemplatesError"

C3_Witness ==
    \E r \in Slots :
        /\ VerifyDone(r)
        /\ req[r].templates_b64 = <<>>
        /\ ProbeOf(req[r].image_base64).ok
        /\ resp[r].status = 400

\* C5 as stated: when the probe is obtained and some template, at any position,
\* decodes to a byte length that is no multiple of 4, the call fails with CodecError.
C5_AnyOddTemplateIsCodecError ==
    \A r \in Slots :
        ( /\ VerifyDone(r)
          /\ ProbeOf(req[r].image_base64).ok
          /\ \E i \in 1..Len(req[r].templates_b64) : OddTemplate(req[r].templates_b64[i]) )
        => (resp[r].status = 400 /\ kind[r] = "CodecError")

\* C5 amended: such a call always fails with a client error and returns no outcome,
\* even when an earlier template is within the threshold; the error is CodecError
\* unless a template before the malformed one has another number of components
\* than the probe, and then it is that template's shape error.
C5_OddTemplateFails ==
    \A r \in Slots :
        \A i \in 1..Len(req[r].templates_b64) :
            ( /\ VerifyDone(r)
              /\ ProbeOf(req[r].image_base64).ok
              /\ OddTemplate(req[r].templates_b64[i]) )
            => /\ resp[r].status = 400
               /\ resp[r].best_distance = None
               /\ \/ kind[r] = "CodecError"
                  \/ /\ kind[r] = "ShapeError"
                     /\ \E j \in 1..(i - 1) :
                           WrongDim(ProbeOf(req[r].image_base64).emb, req[r].templates_b64[j])

C5_Witness ==
    \E r \in Slots :
        /\ VerifyDone(r)
        /\ ProbeOf(req[r].image_base64).ok
        /\ Len(req[r].templates_b64) = 2
        /\ b64_to_emb(req[r].templates_b64[1]).ok
        /\ Leq64(DistTo(ProbeOf(req[r].image_base64).emb, req[r].templates_b64[1]),
                loc[Frame(r)].thr)
        /\ OddTemplate(req[r].templates_b64[2])
        /\ resp[r].status = 400
        /\ kind[r] = "CodecError"

\* C6: two failures of different error kinds never give the caller the same
\* response.
C6_KindsDistinguishable ==
    \A r1 \in Slots, r2 \in Slots :
        ( /\ Done(r1) /\ Done(r2)
          /\ resp[r1].status = 400 /\ resp[r2].status = 400
          /\ kind[r1] # kind[r2] )
        => resp[r1] # resp[r2]

\* C10: when the probe is obtained and some template decodes to a number of
\* float32 components other than the probe's (zero included), the call fails with
\* a client error and returns no outcome.
C10_WrongDimensionFails ==
    \A r \in Slots :
        ( /\ VerifyDone(r)
          /\ ProbeOf(req[r].image_base64).ok
          /\ \E i \in 1..Len(req[r].templates_b64) :
                WrongDim(ProbeOf(req[r].image_base64).emb, req[r].templates_b64[i]) )
        => (resp[r].status = 400 /\ resp[r].best_distance = None)

C10_Witness ==
    \E r \in Slots :
        /\ VerifyDone(r)
        /\ ProbeOf(req[r].image_base64).ok
        /\ Len(req[r].templates_b64) = 2
        /\ Leq64(DistTo(ProbeOf(req[r].image_base64).emb, req[r].templates_b64[1]),
                loc[Frame(r)].thr)
        /\ req[r].templates_b64[2] = TemplateEmpty
        /\ resp[r] = ErrorResp(Detail("shapes not aligned", 2, 0))

\* the areas' maximum is at index i, and at no index before i
PrimaryAt(faces, i) ==
    /\ \A j \in 1..Len(faces) : Area(faces[j]) <= Area(faces[i])
    /\ \A j \in 1..(i - 1) : Area(faces[j]) < Area(faces[i])

\* C4: of a non-empty list of detections the face used is one of maximum area
\* (x2-x1)*(y2-y1), the earliest in the list among those of maximum area.
C4_LargestEarliestFace ==
    (xout.applied /\ xfaces # <<>>) =>
        /\ xout.res.sel \in 1..Len(xfaces)
        /\ PrimaryAt(xfaces, xout.res.sel)

C4_Witness ==
    /\ xout.applied
    /\ Len(xfaces) = 3
    /\ Area(xfaces[1]) < Area(xfaces[2])
    /\ Area(xfaces[2]) = Area(xfaces[3])
    /\ xfaces[2] # xfaces[3]
    /\ xout.res.sel = 2

\* C7: probe extraction fails with NoFaceError on no detections; otherwise with
\* EmptyEmbeddingError exactly when the primary detection's embedding is None or
\* of size 0, whatever the other detections carry; otherwise it returns the
\* primary detection's embedding divided by its norm.
C7_ExtractionOutcome ==
    xout.applied =>
        IF xfaces = <<>>
        THEN ~xout.res.ok /\ xout.res.kind = "NoFaceError"
             /\ xout.res.detail = Detail("no face detected", 0, 0)
        ELSE \A i \in 1..Len(xfaces) :
                PrimaryAt(xfaces, i) =>
                    IF ~xfaces[i].has_emb \/ xfaces[i].embedding = <<>>
                    THEN ~xout.res.ok /\ xout.res.kind = "EmptyEmbeddingError"
                         /\ xout.res.detail = Detail("embedding empty", 0, 0)
                    ELSE /\ xout.res.ok
                         /\ xout.res.emb = Normalize(xfaces[i].embedding)
                         /\ Len(xout.res.emb) = Len(xfaces[i].embedding)

C7_Witness ==
    /\ xout.applied
    /\ Len(xfaces) >= 2
    /\ \E i \in 1..Len(xfaces) :
          /\ PrimaryAt(xfaces, i)
          /\ xfaces[i].has_emb /\ xfaces[i].embedding = <<>>
    /\ \E j \in 1..Len(xfaces) : xfaces[j].has_emb /\ xfaces[j].embedding # <<>>
    /\ xout.res.kind = "EmptyEmbeddingError"

\* request r is a verify of the enrolled image against the enrolled template alone
RoundTrip(r) ==
    /\ VerifyDone(r)
    /\ store.set
    /\ req[r].image_base64 = store.image
    /\ req[r].templates_b64 = <<store.embedding_b64>>

\* the rounding error allowed for "approximately 0": 2^-20
Tol == Dbl(1, -20)

\* |d| <= Tol
NearZero(d) == d.k = "fin" /\ Leq64(Abs64(d), Tol)

\* the vector p has length 1 to within rounding
UnitLength(p) == NearZero(Sub64(ToF64(DotSum(p, p, Len(p))), Dbl(1, 0)))

\* C8 as stated: verifying an image against the template embed returned for it
\* gives best_distance within rounding of 0 and match = true for every threshold
\* >= 0, threshold 0 included.
C8_RoundTripMatchesAtAnyThreshold ==
    \A r \in Slots :
        RoundTrip(r) =>
            /\ resp[r].status = 200
            /\ NearZero(resp[r].best_distance)
            /\ Leq64(Dbl(0, 0), resp[r].threshold) => resp[r].match

\* C8 amended: when the embedding embed returned has unit length (it has not when
\* the face's raw embedding is the zero vector), best_distance is within rounding
\* of 0, above or below it, and match is true for every threshold that is at
\* least that rounding error; at threshold exactly 0 match may be false.
C8_RoundTripMatchesWithinRounding ==
    \A r \in Slots :
        (RoundTrip(r) /\ UnitLength(loc[Frame(r)].probe)) =>
            /\ resp[r].status = 200
            /\ NearZero(resp[r].best_distance)
            /\ Leq64(Tol, resp[r].threshold) => resp[r].match

C8_Witness ==
    \E r \in Slots :
        /\ RoundTrip(r)
        /\ UnitLength(loc[Frame(r)].probe)
        /\ Less64(Dbl(0, 0), resp[r].best_distance)
        /\ req[r].threshold = None
        /\ resp[r].match

\* the response of request q run alone
Alone(q) == IF q.op = "embed" THEN embed(q) ELSE verify(q)

\* C9: under every interleaving of two calls, failing calls included, each call's
\* response is the one it gives when it runs alone on its own inputs.
C9_ResponsesAsIfAlone ==
    \A r \in Slots : Done(r) => resp[r] = Alone(req[r])

C9_Witness ==
    /\ Done(1) /\ resp[1].status = 400
    /\ pc[2] = "loop" /\ loc[Frame(2)].i = 2
    /\ req[1] # req[2]

====
